---- MODULE Spec2Model ----
(***************************************************************************)
(* asm_att: the three forwarding macros of src/lib.rs and the assembly     *)
(* routines its documentation and tests build with them.                   *)
(*                                                                         *)
(* Two kinds of behaviour are modelled.  The macros act at compile time:   *)
(* a call site hands a sequence of token trees to a macro_rules pattern,   *)
(* which either matches and expands or reports a pattern error.  The       *)
(* routines act at run time: each is a short x86-64 instruction sequence   *)
(* in AT&T operand order (source first), run on registers, the ZF and DF   *)
(* flags, byte memory and the call stack.  Every routine has its own       *)
(* specification; all share the variables below.                           *)
(***************************************************************************)
EXTENDS Integers, Sequences, FiniteSets, TLC

VARIABLES
    tokens,     \* the token trees a call site hands to the macros
    expansion,  \* macro name -> what its invocation on `tokens` produced
    pc,         \* position of the running routine
    reg,        \* register name -> value
    zf,         \* zero flag
    df,         \* direction flag
    mem,        \* address -> byte
    stack,      \* return addresses, top last
    bind,       \* operand placeholder -> the register allocated to it
    arg,        \* the values the caller passed (never written by a step)
    result,     \* what the routine handed back to its caller
    execd       \* instruction label -> how often it has executed

vars == <<tokens, expansion, pc, reg, zf, df, mem, stack, bind, arg, result, execd>>

macroVars == <<tokens, expansion>>

machineVars == <<pc, reg, zf, df, mem, stack, bind, arg, result, execd>>

(***************************************************************************)
(* Bounds of the exploration.                                              *)
(***************************************************************************)
MaxTokens == 4

\* Largest target value handed to counter2.
MaxNumber == 200

\* Longest byte sequence handed to str_compare.
MaxStrLen == 3

\* Longest slice handed to slice_copy2.
MaxCopyLen == 3

\* Most return addresses already on the stack when the test calls jmp2.
MaxFrames == 3

(***************************************************************************)
(* Token trees.  A `tt` fragment matches one token or one delimited group; *)
(* a group carries the tokens between its parentheses.                     *)
(***************************************************************************)
Leaf(k, t) == [kind |-> k, text |-> t, inner |-> <<>>]

Group(in) == [kind |-> "group", text |-> "(", inner |-> in]

Template == Leaf("literal", "nop")

Comma == Leaf("punct", ",")

Options == Leaf("ident", "options")

AttSyntaxGroup == Group(<<"att_syntax">>)

NostackGroup == Group(<<"nostack">>)

NostackAttSyntaxGroup == Group(<<"nostack", ",", "att_syntax">>)

\* The clause every macro body writes after the caller's tokens:
\* `, options(att_syntax)`.
AppendedOption == <<Comma, Options, AttSyntaxGroup>>

TokenTrees ==
    {Template, Comma, Options, AttSyntaxGroup, NostackGroup, NostackAttSyntaxGroup}

RECURSIVE SeqsOfLen(_, _)
SeqsOfLen(S, n) ==
    IF n = 0 THEN {<<>>}
    ELSE {Append(s, x) : s \in SeqsOfLen(S, n - 1), x \in S}

SeqsUpTo(S, n) == UNION {SeqsOfLen(S, k) : k \in 0..n}

CallerInputs == SeqsUpTo(TokenTrees, MaxTokens)

(***************************************************************************)
(* macro_rules matching and transcription.                                 *)
(***************************************************************************)
\* A matcher with a separator, `( $($arg:tt),+ )`, which a trailing comma fails.
MatchesCommaSeparated(input) == Len(input) >= 1 /\ input[Len(input)] # Comma

\* The matcher `( $($arg:tt)+ )`: one or more token trees, no separator.
MatchesOneOrMoreTt(input) == Len(input) >= 1

NoRulesExpected == [status |-> "no rules expected", path |-> "", args |-> <<>>]

NotInvoked == [status |-> "not invoked", path |-> "", args |-> <<>>]

Expanded(path, args) == [status |-> "expanded", path |-> path, args |-> args]

\* The option written before the caller's tokens instead of after them.
asm_att_OptionFirst(input) ==
    IF MatchesOneOrMoreTt(input)
        THEN Expanded("::core::arch::asm", <<Options, AttSyntaxGroup, Comma>> \o input)
        ELSE NoRulesExpected

asm_att(input) ==
    IF MatchesOneOrMoreTt(input)
        THEN Expanded("::core::arch::asm", input \o AppendedOption)
        ELSE NoRulesExpected

\* The caller's tokens forwarded with no option appended.
global_asm_att_NoOption(input) ==
    IF MatchesOneOrMoreTt(input)
        THEN Expanded("::core::arch::global_asm", input)
        ELSE NoRulesExpected

global_asm_att(input) ==
    IF MatchesOneOrMoreTt(input)
        THEN Expanded("::core::arch::global_asm", input \o AppendedOption)
        ELSE NoRulesExpected

\* The body of asm_att copied without retargeting the facility.
naked_asm_att_WrongFacility(input) ==
    IF MatchesOneOrMoreTt(input)
        THEN Expanded("::core::arch::asm", input \o AppendedOption)
        ELSE NoRulesExpected

naked_asm_att(input) ==
    IF MatchesOneOrMoreTt(input)
        THEN Expanded("::core::arch::naked_asm", input \o AppendedOption)
        ELSE NoRulesExpected

Macros == {"asm_att", "global_asm_att", "naked_asm_att"}

\* How often a token tree names the att_syntax option.
AttSyntaxIn(tt) ==
    Cardinality({i \in 1..Len(tt.inner) : tt.inner[i] = "att_syntax"})

RECURSIVE AttSyntaxCount(_)
AttSyntaxCount(ts) ==
    IF ts = <<>> THEN 0
    ELSE AttSyntaxIn(Head(ts)) + AttSyntaxCount(Tail(ts))

MachineIdle ==
    /\ pc = "idle"
    /\ reg = <<>>
    /\ zf = FALSE
    /\ df = FALSE
    /\ mem = <<>>
    /\ stack = <<>>
    /\ bind = <<>>
    /\ arg = <<>>
    /\ result = "none"
    /\ execd = <<>>

MacroIdle ==
    /\ tokens = <<>>
    /\ expansion = [m \in Macros |-> NotInvoked]

InitMacro ==
    /\ tokens \in CallerInputs
    /\ expansion = [m \in Macros |-> NotInvoked]
    /\ MachineIdle

InvokeAsmAtt ==
    /\ expansion["asm_att"] = NotInvoked
    /\ expansion' = [expansion EXCEPT !["asm_att"] = asm_att(tokens)]
    /\ UNCHANGED <<tokens, machineVars>>

InvokeGlobalAsmAtt ==
    /\ expansion["global_asm_att"] = NotInvoked
    /\ expansion' = [expansion EXCEPT !["global_asm_att"] = global_asm_att(tokens)]
    /\ UNCHANGED <<tokens, machineVars>>

InvokeNakedAsmAtt ==
    /\ expansion["naked_asm_att"] = NotInvoked
    /\ expansion' = [expansion EXCEPT !["naked_asm_att"] = naked_asm_att(tokens)]
    /\ UNCHANGED <<tokens, machineVars>>

NextMacro == InvokeAsmAtt \/ InvokeGlobalAsmAtt \/ InvokeNakedAsmAtt

SpecMacro == InitMacro /\ [][NextMacro]_vars

(***************************************************************************)
(* Machine words.  A register is a little-endian tuple of 16-bit limbs,    *)
(* four for a 64-bit register, so that sums wrap at the register's width.  *)
(***************************************************************************)
LimbBase == 2 ^ 16

\* Two's complement encoding of a small signed integer in `n` limbs.
RECURSIVE ToWord(_, _)
ToWord(v, n) ==
    IF v >= 0
        THEN [i \in 1..n |-> IF i = 1 THEN v % LimbBase
                             ELSE IF i = 2 THEN v \div LimbBase
                             ELSE 0]
        ELSE [i \in 1..n |-> (LimbBase - 1) - ToWord(-v - 1, n)[i]]

I64(v) == ToWord(v, 4)

I32(v) == ToWord(v, 2)

MaxI64 == <<LimbBase - 1, LimbBase - 1, LimbBase - 1, (LimbBase \div 2) - 1>>

MinI64 == <<0, 0, 0, LimbBase \div 2>>

MaxI32 == <<LimbBase - 1, (LimbBase \div 2) - 1>>

MinI32 == <<0, LimbBase \div 2>>

\* Limb-wise addition with carry; the carry out of the last limb is dropped.
RECURSIVE AddCarry(_, _, _)
AddCarry(x, y, c) ==
    IF x = <<>> THEN <<>>
    ELSE LET s == Head(x) + Head(y) + c
         IN  <<s % LimbBase>> \o AddCarry(Tail(x), Tail(y), s \div LimbBase)

\* A 64-bit `add`/`addq`.
Add64(x, y) == AddCarry(x, y, 0)

\* The low 32 bits of a register.
Low32(x) == SubSeq(x, 1, 2)

\* A write to a 32-bit register clears the upper half of the 64-bit one.
ZeroExtend32(w) == w \o <<0, 0>>

\* A 32-bit `addl`.
Add32(x, y) == AddCarry(Low32(x), Low32(y), 0)

IsZeroWord(w) == \A i \in 1..Len(w) : w[i] = 0

SmallInts == {-5, -1, 0, 1, 2, 3, 5, 100, 200}

InputWords64 == {I64(v) : v \in SmallInts} \cup {MaxI64, MinI64}

\* What a register the caller did not load may hold.
GarbageWords64 == {I64(0), I64(-1)}

\* The registers of class `reg` the allocator draws from.
GeneralRegs == {"rax", "rcx", "rdx", "rsi"}

Bump(label) == [execd EXCEPT ![label] = @ + 1]

\* The addresses the routine's memory covers; an access elsewhere faults.
Mapped(addr) == addr \in DOMAIN mem

(***************************************************************************)
(* add (doc example): mov {0}, {2}; add {1}, {2}                           *)
(* with in(reg) left, in(reg) right, out(reg) result.                      *)
(***************************************************************************)
\* out(reg) is never given an input's register; two inputs can share one
\* only when they hold the same value.
AddBindings(left, right) ==
    {b \in [{"0", "1", "2"} -> GeneralRegs] :
        /\ b["2"] # b["0"]
        /\ b["2"] # b["1"]
        /\ (b["0"] = b["1"] => left = right)}

InitAdd ==
    /\ MacroIdle
    /\ arg \in [left : InputWords64, right : InputWords64]
    /\ bind \in AddBindings(arg.left, arg.right)
    /\ \E g \in GarbageWords64 :
        reg = [r \in GeneralRegs |->
                 IF r = bind["0"] THEN arg.left
                 ELSE IF r = bind["1"] THEN arg.right
                 ELSE g]
    /\ pc = "mov"
    /\ zf \in BOOLEAN
    /\ df = FALSE
    /\ mem = <<>>
    /\ stack = <<>>
    /\ result = "none"
    /\ execd = [l \in {"mov", "add"} |-> 0]

\* `mov {0}, {2}` read destination-first, as without att_syntax.
add_mov_DestinationFirst ==
    /\ pc = "mov"
    /\ reg' = [reg EXCEPT ![bind["0"]] = reg[bind["2"]]]
    /\ pc' = "add"
    /\ execd' = Bump("mov")
    /\ UNCHANGED <<macroVars, zf, df, mem, stack, bind, arg, result>>

\* `mov {0}, {2}`: copy operand 0 into operand 2.
add_mov ==
    /\ pc = "mov"
    /\ reg' = [reg EXCEPT ![bind["2"]] = reg[bind["0"]]]
    /\ pc' = "add"
    /\ execd' = Bump("mov")
    /\ UNCHANGED <<macroVars, zf, df, mem, stack, bind, arg, result>>

\* `add {1}, {2}`: add operand 1 to operand 2; ZF tells whether the sum is 0.
add_add ==
    /\ pc = "add"
    /\ LET sum == Add64(reg[bind["1"]], reg[bind["2"]]) IN
        /\ reg' = [reg EXCEPT ![bind["2"]] = sum]
        /\ zf' = IsZeroWord(sum)
    /\ pc' = "out"
    /\ execd' = Bump("add")
    /\ UNCHANGED <<macroVars, df, mem, stack, bind, arg, result>>

\* The block ends: operand 2 is written back to `result`, which add returns.
add_return ==
    /\ pc = "out"
    /\ result' = reg[bind["2"]]
    /\ pc' = "done"
    /\ UNCHANGED <<macroVars, reg, zf, df, mem, stack, bind, arg, execd>>

NextAdd == add_mov \/ add_add \/ add_return

SpecAdd == InitAdd /\ [][NextAdd]_vars

\* C9: for all 64-bit left and right and every register assignment that
\* in(reg), in(reg), out(reg) allow, add returns left + right modulo 2^64:
\* (2,3) -> 5, (5,3) -> 8, (-1,1) -> 0, (100,200) -> 300, the sum of any two
\* small integers, i64::MAX + 1 = i64::MIN and i64::MIN + (-1) = i64::MAX;
\* both input registers hold their input values when the block ends.
C9_AddReturnsSum ==
    pc = "done" =>
        /\ \A x, y \in SmallInts :
            (arg.left = I64(x) /\ arg.right = I64(y)) => result = I64(x + y)
        /\ (arg.left = I64(2) /\ arg.right = I64(3)) => result = <<5, 0, 0, 0>>
        /\ (arg.left = I64(5) /\ arg.right = I64(3)) => result = <<8, 0, 0, 0>>
        /\ (arg.left = I64(-1) /\ arg.right = I64(1)) => result = <<0, 0, 0, 0>>
        /\ (arg.left = I64(100) /\ arg.right = I64(200)) => result = <<300, 0, 0, 0>>
        /\ (arg.left = MaxI64 /\ arg.right = I64(1)) => result = MinI64
        /\ (arg.left = MinI64 /\ arg.right = I64(-1)) => result = MaxI64
        /\ (arg.left = MinI64 /\ arg.right = MinI64) => result = I64(0)
        /\ (arg.left = MaxI64 /\ arg.right = MaxI64) => result = I64(-2)
        /\ \A v \in SmallInts :
            /\ (arg.left = MaxI64 /\ arg.right = I64(v) /\ v <= 0)
                   => result = [MaxI64 EXCEPT ![1] = @ + v]
            /\ (arg.left = I64(v) /\ arg.right = MinI64 /\ v >= 0)
                   => result = [MinI64 EXCEPT ![1] = @ + v]
        /\ reg[bind["0"]] = arg.left
        /\ reg[bind["1"]] = arg.right

C9_Witness ==
    /\ pc = "done"
    /\ arg.left = I64(-1)
    /\ arg.right = I64(1)
    /\ result = I64(0)
    /\ execd = [l \in {"mov", "add"} |-> 1]

(***************************************************************************)
(* add2 (tests): movl %edi, %eax; addl %esi, %eax; ret                     *)
(* called as extern "C" fn add2(a: i32, b: i32) -> i32: a arrives in edi,  *)
(* b in esi, the upper halves of rdi and rsi are unspecified, and the      *)
(* caller reads the result from eax.                                       *)
(***************************************************************************)
InputWords32 == {I32(v) : v \in SmallInts} \cup {MaxI32, MinI32}

UpperHalves == {<<0, 0>>, <<LimbBase - 1, LimbBase - 1>>}

InitAdd2 ==
    /\ MacroIdle
    /\ arg \in [a : InputWords32, b : InputWords32]
    /\ \E ha, hb \in UpperHalves, g \in GarbageWords64 :
        reg = [rdi |-> arg.a \o ha, rsi |-> arg.b \o hb, rax |-> g]
    /\ pc = "movl"
    /\ zf \in BOOLEAN
    /\ df = FALSE
    /\ mem = <<>>
    /\ stack = <<"add2_works">>
    /\ bind = <<>>
    /\ result = "none"
    /\ execd = [l \in {"movl", "addl", "ret"} |-> 0]

\* `movl %edi, %eax`
add2_movl ==
    /\ pc = "movl"
    /\ reg' = [reg EXCEPT !["rax"] = ZeroExtend32(Low32(reg["rdi"]))]
    /\ pc' = "addl"
    /\ execd' = Bump("movl")
    /\ UNCHANGED <<macroVars, zf, df, mem, stack, bind, arg, result>>

\* `addl %edi, %eax`: the first argument added instead of the second.
add2_addl_FirstArgument ==
    /\ pc = "addl"
    /\ LET sum == Add32(reg["rdi"], reg["rax"]) IN
        /\ reg' = [reg EXCEPT !["rax"] = ZeroExtend32(sum)]
        /\ zf' = IsZeroWord(sum)
    /\ pc' = "ret"
    /\ execd' = Bump("addl")
    /\ UNCHANGED <<macroVars, df, mem, stack, bind, arg, result>>

\* `addl %esi, %eax`
add2_addl ==
    /\ pc = "addl"
    /\ LET sum == Add32(reg["rsi"], reg["rax"]) IN
        /\ reg' = [reg EXCEPT !["rax"] = ZeroExtend32(sum)]
        /\ zf' = IsZeroWord(sum)
    /\ pc' = "ret"
    /\ execd' = Bump("addl")
    /\ UNCHANGED <<macroVars, df, mem, stack, bind, arg, result>>

\* `ret`: pop the return address; the caller takes eax as the i32 result.
add2_ret ==
    /\ pc = "ret"
    /\ stack # <<>>
    /\ pc' = stack[Len(stack)]
    /\ stack' = SubSeq(stack, 1, Len(stack) - 1)
    /\ result' = Low32(reg["rax"])
    /\ execd' = Bump("ret")
    /\ UNCHANGED <<macroVars, reg, zf, df, mem, bind, arg>>

NextAdd2 == add2_movl \/ add2_addl \/ add2_ret

SpecAdd2 == InitAdd2 /\ [][NextAdd2]_vars

\* C10: for all 32-bit a and b passed in edi and esi, add2 returns a + b
\* modulo 2^32 in eax: (1,5) -> 6, (-5,5) -> 0, the sum of any two small
\* integers, i32::MAX + 1 = i32::MIN and i32::MIN + (-1) = i32::MAX,
\* whatever the upper halves of rdi and rsi hold.
C10_Add2ReturnsSum ==
    pc = "add2_works" =>
        /\ \A x, y \in SmallInts :
            (arg.a = I32(x) /\ arg.b = I32(y)) => result = I32(x + y)
        /\ (arg.a = I32(1) /\ arg.b = I32(5)) => result = <<6, 0>>
        /\ (arg.a = I32(-5) /\ arg.b = I32(5)) => result = <<0, 0>>
        /\ (arg.a = MaxI32 /\ arg.b = I32(1)) => result = MinI32
        /\ (arg.a = MinI32 /\ arg.b = I32(-1)) => result = MaxI32
        /\ (arg.a = MinI32 /\ arg.b = MinI32) => result = I32(0)
        /\ (arg.a = MaxI32 /\ arg.b = MaxI32) => result = I32(-2)
        /\ \A v \in SmallInts :
            /\ (arg.a = MaxI32 /\ arg.b = I32(v) /\ v <= 0)
                   => result = [MaxI32 EXCEPT ![1] = @ + v]
            /\ (arg.a = I32(v) /\ arg.b = MinI32 /\ v >= 0)
                   => result = [MinI32 EXCEPT ![1] = @ + v]
        /\ stack = <<>>

C10_Witness ==
    /\ pc = "add2_works"
    /\ arg.a = I32(-5)
    /\ arg.b = I32(5)
    /\ result = I32(0)
    /\ reg["rdi"][3] = LimbBase - 1

(***************************************************************************)
(* counter2 (doc example):                                                 *)
(*     cmp $0, {n}; je 2f; 1: inc {c}; cmp {n}, {c}; jne 1b; 2:            *)
(* with c=inout(reg) counter (0 on entry), n=in(reg) number.               *)
(* Counters are natural numbers here: c never passes n, so the 64-bit      *)
(* wrap of inc is out of reach.                                            *)
(***************************************************************************)
CounterRegs == {"rax", "rcx"}

\* An inout register is never shared with another input.
Counter2Bindings == {b \in [{"c", "n"} -> CounterRegs] : b["c"] # b["n"]}

Counter2Labels == {"cmp0", "je", "inc", "cmp", "jne"}

InitCounter2 ==
    /\ MacroIdle
    /\ arg \in [number : 0..MaxNumber]
    /\ bind \in Counter2Bindings
    /\ reg = [r \in CounterRegs |-> IF r = bind["n"] THEN arg.number ELSE 0]
    /\ pc = "cmp0"
    /\ zf \in BOOLEAN
    /\ df = FALSE
    /\ mem = <<>>
    /\ stack = <<>>
    /\ result = "none"
    /\ execd = [l \in Counter2Labels |-> 0]

\* `cmp $0, {n}`: ZF tells whether n - 0 is zero.
counter2_cmp0 ==
    /\ pc = "cmp0"
    /\ zf' = (reg[bind["n"]] - 0 = 0)
    /\ pc' = "je"
    /\ execd' = Bump("cmp0")
    /\ UNCHANGED <<macroVars, reg, df, mem, stack, bind, arg, result>>

\* `jne 2f` in place of `je 2f`.
counter2_je_Inverted ==
    /\ pc = "je"
    /\ pc' = IF ~zf THEN "2" ELSE "inc"
    /\ execd' = Bump("je")
    /\ UNCHANGED <<macroVars, reg, zf, df, mem, stack, bind, arg, result>>

\* `je 2f`: leave for label 2 when ZF is set, fall through to label 1 otherwise.
counter2_je ==
    /\ pc = "je"
    /\ pc' = IF zf THEN "2" ELSE "inc"
    /\ execd' = Bump("je")
    /\ UNCHANGED <<macroVars, reg, zf, df, mem, stack, bind, arg, result>>

\* `1: inc {c}`.  On every run c < n <= MaxNumber here; the guard only keeps
\* a loop that misses n from counting without end.
counter2_inc ==
    /\ pc = "inc"
    /\ reg[bind["c"]] <= MaxNumber
    /\ reg' = [reg EXCEPT ![bind["c"]] = @ + 1]
    /\ zf' = (reg[bind["c"]] + 1 = 0)
    /\ pc' = "cmp"
    /\ execd' = Bump("inc")
    /\ UNCHANGED <<macroVars, df, mem, stack, bind, arg, result>>

\* `cmp {n}, {c}`: ZF tells whether c - n is zero.
counter2_cmp ==
    /\ pc = "cmp"
    /\ zf' = (reg[bind["c"]] - reg[bind["n"]] = 0)
    /\ pc' = "jne"
    /\ execd' = Bump("cmp")
    /\ UNCHANGED <<macroVars, reg, df, mem, stack, bind, arg, result>>

\* `jne 1b`: back to label 1 while ZF is clear, on to label 2 otherwise.
counter2_jne ==
    /\ pc = "jne"
    /\ pc' = IF ~zf THEN "inc" ELSE "2"
    /\ execd' = Bump("jne")
    /\ UNCHANGED <<macroVars, reg, zf, df, mem, stack, bind, arg, result>>

\* `2:` the block ends: c is written back to `counter`, which counter2 returns.
counter2_return ==
    /\ pc = "2"
    /\ result' = reg[bind["c"]]
    /\ pc' = "done"
    /\ UNCHANGED <<macroVars, reg, zf, df, mem, stack, bind, arg, execd>>

NextCounter2 ==
    \/ counter2_cmp0
    \/ counter2_je
    \/ counter2_inc
    \/ counter2_cmp
    \/ counter2_jne
    \/ counter2_return

SpecCounter2 == InitCounter2 /\ [][NextCounter2]_vars

\* The processor executes the next instruction as long as there is one.
FairSpecCounter2 == SpecCounter2 /\ WF_vars(NextCounter2)

\* C6: for every target value n, n = 0 included, the loop of counter2
\* started with counter 0 terminates and counter2 returns exactly n: for
\* n = 0 the loop body is skipped, otherwise inc executes exactly n times
\* before label 2 is reached.
C6_Counter2TerminatesWithN ==
    /\ <>(pc = "done")
    /\ [](pc \in {"2", "done"} =>
            /\ reg[bind["c"]] = arg.number
            /\ execd["inc"] = arg.number
            /\ execd["cmp"] = arg.number
            /\ reg[bind["n"]] = arg.number)
    /\ [](pc = "done" => result = arg.number)

C6_Witness ==
    /\ pc = "done"
    /\ arg.number = MaxNumber - 1
    /\ result = MaxNumber - 1
    /\ execd["inc"] = MaxNumber - 1

(***************************************************************************)
(* str_compare (doc example): cld; repe cmpsb; sete {res}                  *)
(* with in("rsi") a.as_ptr(), in("rdi") b.as_ptr(), in("rcx") len,         *)
(* res=lateout(reg_byte) result, after the length test of the function.    *)
(* The flags and the registers the function did not load hold whatever the *)
(* code before the block left in them.                                     *)
(***************************************************************************)
StrBytes == {104, 119}

ByteStrings == SeqsUpTo(StrBytes, MaxStrLen)

\* The byte registers a lateout(reg_byte) may get, each with the register
\* it is the low byte of; a lateout may share a register with an input.
ByteRegParent == [al |-> "rax", cl |-> "rcx", dl |-> "rdx"]

GarbageValues == {0, 511}

LowByte(v) == v % 256

WithLowByte(v, b) == (v \div 256) * 256 + b

StrCompareLabels == {"cld", "cmpsb", "sete"}

InitStrCompare ==
    /\ MacroIdle
    /\ arg \in [a : ByteStrings, b : ByteStrings]
    /\ mem = arg.a \o arg.b
    /\ bind \in [{"res"} -> DOMAIN ByteRegParent]
    /\ \E g \in GarbageValues : reg = [r \in {"rsi", "rdi", "rcx", "rax", "rdx"} |-> g]
    /\ pc = "entry"
    /\ zf \in BOOLEAN
    /\ df \in BOOLEAN
    /\ stack = <<>>
    /\ result = "none"
    /\ execd = [l \in StrCompareLabels |-> 0]

\* The length test, then the operands loaded: a.as_ptr() is address 1 and
\* b.as_ptr() the address after a's last byte.
str_compare_entry ==
    /\ pc = "entry"
    /\ IF Len(arg.a) # Len(arg.b)
        THEN /\ result' = FALSE
             /\ pc' = "done"
             /\ reg' = reg
        ELSE /\ reg' = [reg EXCEPT !["rsi"] = 1,
                                   !["rdi"] = Len(arg.a) + 1,
                                   !["rcx"] = Len(arg.a)]
             /\ pc' = "cld"
             /\ result' = result
    /\ UNCHANGED <<macroVars, zf, df, mem, stack, bind, arg, execd>>

\* `cld`
str_compare_cld ==
    /\ pc = "cld"
    /\ df' = FALSE
    /\ pc' = "repe"
    /\ execd' = Bump("cld")
    /\ UNCHANGED <<macroVars, reg, zf, mem, stack, bind, arg, result>>

\* `repe cmpsb`, one iteration: with rcx = 0 the instruction is over and no
\* flag is touched; otherwise compare the bytes at rsi and rdi, step both
\* pointers, decrement rcx, and go on only while the bytes were equal.
str_compare_repe_cmpsb ==
    /\ pc = "repe"
    /\ IF reg["rcx"] = 0
        THEN /\ pc' = "sete"
             /\ UNCHANGED <<reg, zf, execd>>
        ELSE IF ~Mapped(reg["rsi"]) \/ ~Mapped(reg["rdi"])
        THEN /\ pc' = "fault"
             /\ UNCHANGED <<reg, zf, execd>>
        ELSE LET equal == mem[reg["rsi"]] = mem[reg["rdi"]]
                 step == IF df THEN -1 ELSE 1
             IN  /\ zf' = equal
                 /\ reg' = [reg EXCEPT !["rsi"] = @ + step,
                                       !["rdi"] = @ + step,
                                       !["rcx"] = @ - 1]
                 /\ pc' = IF equal THEN "repe" ELSE "sete"
                 /\ execd' = Bump("cmpsb")
    /\ UNCHANGED <<macroVars, df, mem, stack, bind, arg, result>>

\* `sete {res}`: the byte register gets 1 when ZF is set, 0 otherwise.
str_compare_sete ==
    /\ pc = "sete"
    /\ LET r == ByteRegParent[bind["res"]] IN
        reg' = [reg EXCEPT ![r] = WithLowByte(@, IF zf THEN 1 ELSE 0)]
    /\ pc' = "out"
    /\ execd' = Bump("sete")
    /\ UNCHANGED <<macroVars, zf, df, mem, stack, bind, arg, result>>

\* The block ends: `result != 0` is what str_compare returns.
str_compare_return ==
    /\ pc = "out"
    /\ result' = (LowByte(reg[ByteRegParent[bind["res"]]]) # 0)
    /\ pc' = "done"
    /\ UNCHANGED <<macroVars, reg, zf, df, mem, stack, bind, arg, execd>>

NextStrCompare ==
    \/ str_compare_entry
    \/ str_compare_cld
    \/ str_compare_repe_cmpsb
    \/ str_compare_sete
    \/ str_compare_return

SpecStrCompare == InitStrCompare /\ [][NextStrCompare]_vars

\* C5: for all byte sequences a and b and every content of the flags and
\* unbound registers on entry, str_compare reports equal exactly when a and
\* b have the same length and the same bytes (two empty sequences: equal),
\* and sequences of differing lengths report not-equal without cld,
\* repe cmpsb or sete being executed.
C5_StrCompareIsEquality ==
    /\ pc # "fault"
    /\ pc = "done" =>
        /\ result = (arg.a = arg.b)
        /\ (Len(arg.a) # Len(arg.b) => \A l \in StrCompareLabels : execd[l] = 0)

(***************************************************************************)
(* slice_copy2 (doc example):                                              *)
(*     cld; movq {src}, %rsi; movq {dst}, %rdi; movq {n}, %rcx; rep movsb  *)
(* with src=in(reg), dst=in(reg), n=in(reg), out("rsi") _, out("rdi") _,   *)
(* out("rcx") _, after the length test of the function.                    *)
(***************************************************************************)
CopyBytes == {0, 72}

GuardByte == 255

CopyRegs == {"rax", "rdx", "r8", "rsi", "rdi", "rcx"}

CopyLabels == {"cld", "movq_rsi", "movq_rdi", "movq_rcx", "movsb"}

SliceAt(m, ptr, len) == [i \in 1..len |-> m[ptr + i - 1]]

Fill(len, b) == [i \in 1..len |-> b]

\* Memory holds the two slices, which never overlap, in either order, with
\* a byte that belongs to neither before, between and after them.
InitialCopyArgs ==
    UNION {
        { [src |-> s, dstLen |-> dl, srcPtr |-> 2, dstPtr |-> Len(s) + 3,
           mem0 |-> <<GuardByte>> \o s \o <<GuardByte>> \o Fill(dl, f) \o <<GuardByte>>],
          [src |-> s, dstLen |-> dl, srcPtr |-> dl + 3, dstPtr |-> 2,
           mem0 |-> <<GuardByte>> \o Fill(dl, f) \o <<GuardByte>> \o s \o <<GuardByte>>] } :
        s \in SeqsUpTo(CopyBytes, MaxCopyLen), dl \in 0..MaxCopyLen, f \in CopyBytes}

\* The value each in(reg) operand carries into the block.
CopyOperand(a, name) ==
    CASE name = "src" -> a.srcPtr
      [] name = "dst" -> a.dstPtr
      [] name = "n" -> a.dstLen

\* As if the three were lateout: an input may then sit in rsi, rdi or rcx.
SliceCopy2InputRegs_LateOut == CopyRegs

\* out("rsi"), out("rdi") and out("rcx") are early outputs, so the allocator
\* gives none of the three to src, dst or n.
SliceCopy2InputRegs == CopyRegs \ {"rsi", "rdi", "rcx"}

\* Two inputs can share a register only when they hold the same value.
SliceCopy2Bindings(a) ==
    {b \in [{"src", "dst", "n"} -> SliceCopy2InputRegs] :
        \A p, q \in {"src", "dst", "n"} :
            b[p] = b[q] => CopyOperand(a, p) = CopyOperand(a, q)}

InitSliceCopy2 ==
    /\ MacroIdle
    /\ arg \in InitialCopyArgs
    /\ mem = arg.mem0
    /\ bind \in SliceCopy2Bindings(arg)
    /\ \E g \in GarbageValues : reg = [r \in CopyRegs |-> g]
    /\ pc = "entry"
    /\ zf = FALSE
    /\ df \in BOOLEAN
    /\ stack = <<>>
    /\ result = "none"
    /\ execd = [l \in CopyLabels |-> 0]

\* The length test (a mismatch panics), then the operands loaded.
slice_copy2_entry ==
    /\ pc = "entry"
    /\ IF Len(arg.src) # arg.dstLen
        THEN /\ pc' = "panic"
             /\ reg' = reg
        ELSE /\ reg' = [r \in CopyRegs |->
                          IF r = bind["src"] THEN arg.srcPtr
                          ELSE IF r = bind["dst"] THEN arg.dstPtr
                          ELSE IF r = bind["n"] THEN arg.dstLen
                          ELSE reg[r]]
             /\ pc' = "cld"
    /\ UNCHANGED <<macroVars, zf, df, mem, stack, bind, arg, result, execd>>

\* `cld`
slice_copy2_cld ==
    /\ pc = "cld"
    /\ df' = FALSE
    /\ pc' = "movq_rsi"
    /\ execd' = Bump("cld")
    /\ UNCHANGED <<macroVars, reg, zf, mem, stack, bind, arg, result>>

\* `movq {src}, %rsi`
slice_copy2_movq_rsi ==
    /\ pc = "movq_rsi"
    /\ reg' = [reg EXCEPT !["rsi"] = reg[bind["src"]]]
    /\ pc' = "movq_rdi"
    /\ execd' = Bump("movq_rsi")
    /\ UNCHANGED <<macroVars, zf, df, mem, stack, bind, arg, result>>

\* `movq {dst}, %rdi`
slice_copy2_movq_rdi ==
    /\ pc = "movq_rdi"
    /\ reg' = [reg EXCEPT !["rdi"] = reg[bind["dst"]]]
    /\ pc' = "movq_rcx"
    /\ execd' = Bump("movq_rdi")
    /\ UNCHANGED <<macroVars, zf, df, mem, stack, bind, arg, result>>

\* `movq {n}, %rcx`
slice_copy2_movq_rcx ==
    /\ pc = "movq_rcx"
    /\ reg' = [reg EXCEPT !["rcx"] = reg[bind["n"]]]
    /\ pc' = "rep"
    /\ execd' = Bump("movq_rcx")
    /\ UNCHANGED <<macroVars, zf, df, mem, stack, bind, arg, result>>

\* `rep movsb`, one iteration: with rcx = 0 the instruction is over;
\* otherwise copy the byte at rsi to rdi, step both pointers, decrement rcx.
slice_copy2_rep_movsb ==
    /\ pc = "rep"
    /\ IF reg["rcx"] = 0
        THEN /\ pc' = "out"
             /\ UNCHANGED <<reg, mem, execd>>
        ELSE IF ~Mapped(reg["rsi"]) \/ ~Mapped(reg["rdi"])
        THEN /\ pc' = "fault"
             /\ UNCHANGED <<reg, mem, execd>>
        ELSE LET step == IF df THEN -1 ELSE 1 IN
             /\ mem' = [mem EXCEPT ![reg["rdi"]] = mem[reg["rsi"]]]
             /\ reg' = [reg EXCEPT !["rsi"] = @ + step,
                                   !["rdi"] = @ + step,
                                   !["rcx"] = @ - 1]
             /\ pc' = "rep"
             /\ execd' = Bump("movsb")
    /\ UNCHANGED <<macroVars, zf, df, stack, bind, arg, result>>

\* The block ends and slice_copy2 returns.
slice_copy2_return ==
    /\ pc = "out"
    /\ pc' = "done"
    /\ UNCHANGED <<macroVars, reg, zf, df, mem, stack, bind, arg, result, execd>>

NextSliceCopy2 ==
    \/ slice_copy2_entry
    \/ slice_copy2_cld
    \/ slice_copy2_movq_rsi
    \/ slice_copy2_movq_rdi
    \/ slice_copy2_movq_rcx
    \/ slice_copy2_rep_movsb
    \/ slice_copy2_return

SpecSliceCopy2 == InitSliceCopy2 /\ [][NextSliceCopy2]_vars

DstAddresses == arg.dstPtr..(arg.dstPtr + arg.dstLen - 1)

\* C7: for every source of length L, L = 0 included, a destination of the
\* same length and every register assignment the bindings allow, slice_copy2
\* leaves the destination equal to the source byte for byte, the source
\* unchanged, and no byte outside the L destination bytes written.
C7_SliceCopy2Copies ==
    /\ pc # "fault"
    /\ pc = "done" =>
        /\ SliceAt(mem, arg.dstPtr, arg.dstLen) = arg.src
        /\ SliceAt(mem, arg.srcPtr, Len(arg.src)) = arg.src
        /\ \A a \in DOMAIN mem : a \notin DstAddresses => mem[a] = arg.mem0[a]
        /\ DOMAIN mem = DOMAIN arg.mem0
        /\ execd["movsb"] = arg.dstLen

C7_Witness ==
    /\ pc = "done"
    /\ arg.src = <<72, 0, 72>>
    /\ arg.dstPtr < arg.srcPtr
    /\ SliceAt(arg.mem0, arg.dstPtr, arg.dstLen) = <<0, 0, 0>>
    /\ SliceAt(mem, arg.dstPtr, arg.dstLen) = <<72, 0, 72>>

(***************************************************************************)
(* return_1000 and jmp2 (tests), both naked:                               *)
(*     return_1000:  mov $1000, %eax; ret                                  *)
(*     jmp2:         jmp return_1000; ret                                  *)
(* A call pushes the address to return to and a ret pops it.  The caller   *)
(* calls jmp2, or return_1000 directly for comparison.                     *)
(***************************************************************************)
Jmp2Labels == {"jmp2:jmp", "jmp2:ret", "return_1000:mov", "return_1000:ret"}

InitJmp2 ==
    /\ MacroIdle
    /\ \E depth \in 0..MaxFrames, callee \in {"jmp2", "return_1000"} :
        /\ stack = [i \in 1..depth |-> "outer"]
        /\ arg = [callee |-> callee, rsp |-> depth]
    /\ reg \in [{"rax"} -> InputWords64]
    /\ pc = "call"
    /\ zf = FALSE
    /\ df = FALSE
    /\ mem = <<>>
    /\ bind = <<>>
    /\ result = "none"
    /\ execd = [l \in Jmp2Labels |-> 0]

\* `unsafe { jmp2() }`: push the return address and enter the routine.
jmp2_should_work_call ==
    /\ pc = "call"
    /\ stack' = Append(stack, "after_call")
    /\ pc' = IF arg.callee = "jmp2" THEN "jmp2:jmp" ELSE "return_1000:mov"
    /\ UNCHANGED <<macroVars, reg, zf, df, mem, bind, arg, result, execd>>

\* `call return_1000` in place of the jump.
jmp2_jmp_AsCall ==
    /\ pc = "jmp2:jmp"
    /\ stack' = Append(stack, "jmp2:ret")
    /\ pc' = "return_1000:mov"
    /\ execd' = Bump("jmp2:jmp")
    /\ UNCHANGED <<macroVars, reg, zf, df, mem, bind, arg, result>>

\* `jmp {0}` with sym return_1000: control moves, the stack does not.
jmp2_jmp ==
    /\ pc = "jmp2:jmp"
    /\ pc' = "return_1000:mov"
    /\ execd' = Bump("jmp2:jmp")
    /\ UNCHANGED <<macroVars, reg, zf, df, mem, stack, bind, arg, result>>

\* `mov $1000, %eax`
return_1000_mov ==
    /\ pc = "return_1000:mov"
    /\ reg' = [reg EXCEPT !["rax"] = ZeroExtend32(I32(1000))]
    /\ pc' = "return_1000:ret"
    /\ execd' = Bump("return_1000:mov")
    /\ UNCHANGED <<macroVars, zf, df, mem, stack, bind, arg, result>>

\* `ret`, of either routine: pop the return address and go there.
naked_ret ==
    /\ pc \in {"jmp2:ret", "return_1000:ret"}
    /\ stack # <<>>
    /\ pc' = stack[Len(stack)]
    /\ stack' = SubSeq(stack, 1, Len(stack) - 1)
    /\ execd' = Bump(pc)
    /\ UNCHANGED <<macroVars, reg, zf, df, mem, bind, arg, result>>

\* Back in the caller, which takes eax as the i32 the call returned.
jmp2_should_work_returned ==
    /\ pc = "after_call"
    /\ result' = Low32(reg["rax"])
    /\ pc' = "done"
    /\ UNCHANGED <<macroVars, reg, zf, df, mem, stack, bind, arg, execd>>

NextJmp2 ==
    \/ jmp2_should_work_call
    \/ jmp2_jmp
    \/ return_1000_mov
    \/ naked_ret
    \/ jmp2_should_work_returned

SpecJmp2 == InitJmp2 /\ [][NextJmp2]_vars

\* The processor executes the next instruction as long as there is one.
FairSpecJmp2 == SpecJmp2 /\ WF_vars(NextJmp2)

\* C8: a call of jmp2 always returns 1000 to jmp2's caller: control jumps to
\* return_1000, which loads 1000 into eax and executes the one ret that pops
\* the caller's return address; the ret after the jmp inside jmp2 is never
\* executed, and the stack pointer on return is the one a direct call of
\* return_1000 leaves, that of before the call.
C8_Jmp2Returns1000 ==
    /\ <>(pc = "done")
    /\ [](/\ pc # "jmp2:ret"
          /\ execd["jmp2:ret"] = 0
          /\ pc \in {"after_call", "done"} =>
                /\ Low32(reg["rax"]) = <<1000, 0>>
                /\ Len(stack) = arg.rsp
                /\ execd["return_1000:ret"] = 1
                /\ execd["jmp2:jmp"] = (IF arg.callee = "jmp2" THEN 1 ELSE 0)
          /\ pc = "done" => result = <<1000, 0>>)

C8_Witness ==
    /\ pc = "done"
    /\ arg.callee = "jmp2"
    /\ execd["jmp2:jmp"] = 1
    /\ result = I32(1000)
    /\ Len(stack) = MaxFrames

(***************************************************************************)
(* Properties of the macros.                                               *)
(***************************************************************************)
Invoked(m) == expansion[m] # NotInvoked

Expands(m) == expansion[m].status = "expanded"

\* The caller's tokens come first and the appended clause comes last.
EndsWithAppendedOption(m) ==
    LET a == expansion[m].args IN
    /\ Len(a) = Len(tokens) + Len(AppendedOption)
    /\ SubSeq(a, 1, Len(tokens)) = tokens
    /\ SubSeq(a, Len(tokens) + 1, Len(a)) = AppendedOption

\* C1 as stated: for each of the three macros and every non-empty caller
\* token sequence, also one that itself names att_syntax, the expanded
\* invocation contains the att_syntax option exactly once, after all caller
\* tokens.
C1_AttSyntaxExactlyOnce ==
    \A m \in Macros :
        (Invoked(m) /\ tokens # <<>>) =>
            /\ Expands(m)
            /\ EndsWithAppendedOption(m)
            /\ AttSyntaxCount(expansion[m].args) = 1

\* C1 amended: for each of the three macros and every non-empty caller token
\* sequence the macro appends the att_syntax option exactly once, after all
\* caller tokens; the expansion names att_syntax once more than the caller's
\* tokens do, hence exactly once when the caller does not name it and more
\* than once when the caller does.
C1_AttSyntaxAppendedOnce ==
    \A m \in Macros :
        (Invoked(m) /\ tokens # <<>>) =>
            /\ Expands(m)
            /\ EndsWithAppendedOption(m)
            /\ AttSyntaxCount(expansion[m].args) = AttSyntaxCount(tokens) + 1
            /\ (AttSyntaxCount(tokens) = 0 => AttSyntaxCount(expansion[m].args) = 1)
            /\ (AttSyntaxCount(tokens) > 0 => AttSyntaxCount(expansion[m].args) > 1)

C1_Witness ==
    /\ tokens = <<Template, Comma, Options, AttSyntaxGroup>>
    /\ \A m \in Macros : Expands(m) /\ AttSyntaxCount(expansion[m].args) = 2

\* C2: for every token sequence T that asm_att! accepts, the argument list
\* handed to ::core::arch::asm! is exactly T, token for token and in order,
\* followed by the one appended `, options(att_syntax)` clause.
C2_ForwardsUnmodified ==
    Expands("asm_att") =>
        LET a == expansion["asm_att"].args IN
        /\ expansion["asm_att"].path = "::core::arch::asm"
        /\ Len(a) = Len(tokens) + 3
        /\ \A i \in 1..Len(tokens) : a[i] = tokens[i]
        /\ a[Len(tokens) + 1] = Comma
        /\ a[Len(tokens) + 2] = Options
        /\ a[Len(tokens) + 3] = AttSyntaxGroup

C2_Witness ==
    /\ tokens = <<Template, Comma, Options, NostackGroup>>
    /\ Expands("asm_att")

\* C3 as stated: the forwarder validates nothing; for every caller input, of
\* any length, with or without a trailing separator, the macro itself
\* expands.
C3_AlwaysExpands ==
    \A m \in Macros : Invoked(m) => Expands(m)

\* C3 amended: for every caller input of at least one token tree, with or
\* without a trailing separator, the macro itself expands; only the empty
\* invocation is rejected by the forwarder's own pattern.
C3_NonEmptyAlwaysExpands ==
    \A m \in Macros : Invoked(m) => (Expands(m) <=> tokens # <<>>)

C3_Witness ==
    /\ tokens = <<Template, Comma>>
    /\ Expands("asm_att")
    /\ expansion["asm_att"].args = <<Template, Comma, Comma, Options, AttSyntaxGroup>>

FacilityOf(m) ==
    CASE m = "asm_att" -> "::core::arch::asm"
      [] m = "global_asm_att" -> "::core::arch::global_asm"
      [] m = "naked_asm_att" -> "::core::arch::naked_asm"

\* C4: for the same caller token sequence the three expansions carry the
\* identical argument list, caller tokens followed by the att_syntax option,
\* and differ only in the facility invoked; an expansion, once produced, is
\* not changed by the invocation of another macro.
C4_SamePatternThreeFacilities ==
    /\ \A m1, m2 \in Macros :
        (Expands(m1) /\ Expands(m2)) =>
            /\ expansion[m1].args = expansion[m2].args
            /\ expansion[m1].args = tokens \o AppendedOption
            /\ (m1 # m2 => expansion[m1].path # expansion[m2].path)
    /\ \A m \in Macros : Expands(m) => expansion[m].path = FacilityOf(m)

C4_Witness ==
    /\ tokens = <<Template>>
    /\ \A m \in Macros : Expands(m)
    /\ Cardinality({expansion[m].path : m \in Macros}) = 3

====
